---- MODULE Spec2Model ----
(***************************************************************************)
(* Model of bulk_cmr_query.py: the paginated CMR search (get_cmr_pages_urls,*)
(* get_tasks, get_urls), the netrc check and the concurrent chunked         *)
(* downloads (download_file) that main() wires together.                    *)
(*                                                                          *)
(* Strings are sequences of one-character strings, so that the substring,   *)
(* suffix and split operations of the source are computed, not assumed.     *)
(***************************************************************************)
EXTENDS Integers, Sequences, FiniteSets, TLC

\* ------------------------------------------------------------------ bounds

\* Largest CMR-Hits value and page_size tried on get_cmr_pages_urls alone.
MaxHits == 12
MaxPageSize == 8
\* Largest number of 16 KiB chunks in one asset body.
MaxChunks == 2

\* ------------------------------------------------------- program constants

\* main(): get_urls(..., page_size=10)
PageSize == 10
\* main(): results[:5]
DownloadLimit == 5
\* the only status get_cmr_pages_urls and download_file accept
StatusOK == 200

\* ------------------------------------------------------------------ strings

Min(a, b) == IF a < b THEN a ELSE b
Max(a, b) == IF a < b THEN b ELSE a

\* Python: sub in s
Contains(sub, s) ==
    \E i \in 0..(Len(s) - Len(sub)) : SubSeq(s, i + 1, i + Len(sub)) = sub

\* Python: s.endswith(suf)
EndsWith(s, suf) ==
    /\ Len(suf) <= Len(s)
    /\ SubSeq(s, Len(s) - Len(suf) + 1, Len(s)) = suf

\* Python: s.split('/')[-1], the text after the last '/' (all of s without one)
LastSegment(s) ==
    LET cuts == {i \in 1..Len(s) : s[i] = "/"}
        last == IF cuts = {} THEN 0 ELSE CHOOSE i \in cuts : \A j \in cuts : j <= i
    IN  SubSeq(s, last + 1, Len(s))

HTTPS == <<"h", "t", "t", "p", "s">>
HTTP == <<"h", "t", "t", "p">>
SchemeSep == <<":", "/", "/">>
DotH5 == <<".", "h", "5">>
DotXml == <<".", "x", "m", "l">>
HostE == <<"e", ".", "g", "o", "v", "/">>
HostM == <<"m", ".", "g", "o", "v", "/">>

\* The hrefs the search API serves in this model.
UrlA == HTTPS \o SchemeSep \o HostE \o <<"a">> \o DotH5
UrlB == HTTPS \o SchemeSep \o HostE \o <<"b">> \o DotH5
UrlAm == HTTPS \o SchemeSep \o HostM \o <<"a">> \o DotH5
UrlC == HTTP \o SchemeSep \o HostE \o HTTPS \o <<"/", "c">> \o DotH5
UrlD == HTTP \o SchemeSep \o HostE \o <<"d">> \o DotH5
UrlX == HTTPS \o SchemeSep \o HostE \o <<"a">> \o DotXml
UrlS == <<"s", "3">> \o SchemeSep \o HostE \o <<"a">> \o DotH5
Granule(c) == HTTPS \o SchemeSep \o HostE \o <<c>> \o DotH5

\* ------------------------------------------------------- the search server

\* A granule entry of the feed: g['links'], each link reduced to its href.
Entry(links) == [links |-> links]
Browse == Entry(<<UrlX>>)

\* What the server holds for the query: feed.entry over all pages.
Catalogs == <<
    \* 1: twelve granules, two pages of ten: a repeated href across pages
    <<Entry(<<UrlX, UrlA, UrlC>>), Browse, Browse, Browse, Browse,
      Browse, Browse, Browse, Browse, Entry(<<UrlS, UrlD>>),
      Entry(<<UrlA>>), Entry(<<UrlD, UrlB>>)>>,
    \* 2: one granule listed on two hosts under the same file name
    <<Entry(<<UrlA, UrlAm>>)>>,
    \* 3: no granule at all
    <<>>,
    \* 4: granules without a matching link
    <<Browse, Entry(<<UrlD, UrlS>>)>>,
    \* 5: eleven granules with one data file each
    <<Entry(<<Granule("0")>>), Entry(<<Granule("1")>>), Entry(<<Granule("2")>>),
      Entry(<<Granule("3")>>), Entry(<<Granule("4")>>), Entry(<<Granule("5")>>),
      Entry(<<Granule("6")>>), Entry(<<Granule("7")>>), Entry(<<Granule("8")>>),
      Entry(<<Granule("9")>>), Entry(<<UrlB, UrlX>>)>>
>>
SmallCatalogs == {1, 2, 3, 4}
FanoutCatalogs == {5}

\* The JSON body of page page_num: res['feed']['entry'].
PageBody(cat, size, page_num) ==
    LET all == Catalogs[cat]
    IN  SubSeq(all, (page_num - 1) * size + 1, Min(page_num * size, Len(all)))

\* ------------------------------------------------------ get_cmr_pages_urls

CountStatuses == {200, 404, 500}

CeilFloor(hits, size) == hits \div size
\* math.ceil(hits / page_size)
Ceil(hits, size) == (hits + size - 1) \div size

\* f"{response.url}&page_num={x}".replace('granules?', 'granules.json?')
PageUrl(size, x) == [endpoint |-> "granules.json", page_size |-> size, page_num |-> x]

PagesNoStatusCheck(status, hits, size) ==
    [isNone |-> FALSE,
     urls |-> [x \in 1..Ceil(hits, size) |-> PageUrl(size, x)]]
get_cmr_pages_urls(status, hits, size) ==
    IF status # StatusOK
    THEN [isNone |-> TRUE, urls |-> <<>>]
    ELSE [isNone |-> FALSE,
          urls |-> [x \in 1..Ceil(hits, size) |-> PageUrl(size, x)]]

\* ----------------------------------------------------------------- get_urls

\* 'https' in l['href'] and l['href'].endswith('.h5')
LinkFilter(href) == Contains(HTTPS, href) /\ EndsWith(href, DotH5)

RECURSIVE LinksOf(_)
\* [l['href'] for l in g['links'] if ...] for one entry
LinksOf(links) ==
    IF links = <<>> THEN <<>>
    ELSE (IF LinkFilter(Head(links)) THEN <<Head(links)>> ELSE <<>>)
         \o LinksOf(Tail(links))

RECURSIVE PageLinks(_)
\* the list comprehension over res['feed']['entry']
PageLinks(entries) ==
    IF entries = <<>> THEN <<>>
    ELSE LinksOf(Head(entries).links) \o PageLinks(Tail(entries))

GatherArrivalOrder(n, arrived) == arrived
\* asyncio.gather(*tasks): the results in the order of the awaitables passed
GatherOrder(n, arrived) == [i \in 1..n |-> i]

RECURSIVE Extend(_, _, _)
\* for response in responses: result.extend([...])
Extend(cat, urls, order) ==
    IF order = <<>> THEN <<>>
    ELSE LET u == urls[Head(order)]
         IN  PageLinks(PageBody(cat, u.page_size, u.page_num))
             \o Extend(cat, urls, Tail(order))

\* ------------------------------------------------------------------- netrc

\* ~/.netrc: missing, without an entry for URS, or with one
CredStates == {"absent", "no_entry", "present"}

NetrcCheckSkipped(c) == FALSE
\* netrc(netrc_dir).authenticators(URS)[0] raises FileNotFoundError or TypeError
NetrcCheckFails(c) == c \in {"absent", "no_entry"}

\* ----------------------------------------------------------------- sessions

SessionForShared(kind) ==
    IF kind = "count" THEN "requests" ELSE "anon"
\* requests.get for the count, the first ClientSession for the pages, the
\* ClientSession(auth=BasicAuth(...)) for the assets
SessionFor(kind) ==
    CASE kind = "count" -> "requests"
      [] kind = "page" -> "anon"
      [] kind = "download" -> "auth"

\* only the second ClientSession carries BasicAuth
HasCredentials(via) == via = "auth"

Request(kind, n) ==
    [kind |-> kind, n |-> n, via |-> SessionFor(kind),
     creds |-> HasCredentials(SessionFor(kind))]

\* -------------------------------------------------------------------- files

Hole == <<0, 0>>
\* chunk k of the body answered to task t
Chunk(t, k) == <<t, k>>
Body(t, len) == [k \in 1..len |-> Chunk(t, k)]

OpenKeep(fs, name) ==
    [n \in DOMAIN fs \cup {name} |-> IF n \in DOMAIN fs THEN fs[n] ELSE <<>>]
\* aiofiles.open(name, 'wb+'): creates the file or truncates it
OpenTruncate(fs, name) ==
    [n \in DOMAIN fs \cup {name} |-> IF n = name THEN <<>> ELSE fs[n]]

\* file.write(chunk) at this handle's own offset; a write past the end of a
\* file another handle truncated leaves a hole before it
WriteAt(content, pos, chunk) ==
    [i \in 1..Max(Len(content), pos + 1) |->
        IF i = pos + 1 THEN chunk
        ELSE IF i <= Len(content) THEN content[i]
        ELSE Hole]

\* --------------------------------------------------------------------- state

VARIABLES
    pc,          \* where main() is
    outcome,     \* how main() ended
    catalog,     \* what the search server holds (an index of Catalogs)
    netrcState,  \* the credential store
    page_size,   \* the page_size argument
    countResp,   \* the response to the count request
    pageUrls,    \* what get_cmr_pages_urls returned
    arrived,     \* page requests answered so far, in order of arrival
    results,     \* what get_urls returned
    session,     \* the two ClientSessions
    sent,        \* every HTTP request issued so far
    tasks,       \* the download tasks of main()
    files        \* the data/ directory: file name -> chunks

vars == <<pc, outcome, catalog, netrcState, page_size, countResp, pageUrls,
          arrived, results, session, sent, tasks, files>>

NoResp == [status |-> 0, hits |-> 0]
NoPages == [isNone |-> FALSE, urls |-> <<>>]

Running == {"created", "requesting", "writing"}

FileName(t) == LastSegment(tasks[t].url)

\* download operations that hold a connection: started and not finished
InFlight == {t \in DOMAIN tasks : tasks[t].st \in {"requesting", "writing"}}

InitCommon ==
    /\ outcome = "running"
    /\ netrcState \in CredStates
    /\ countResp = NoResp
    /\ pageUrls = NoPages
    /\ arrived = <<>>
    /\ results = <<>>
    /\ session = [anon |-> "unopened", auth |-> "unopened"]
    /\ sent = {}
    /\ tasks = <<>>
    /\ files = <<>>

Init ==
    /\ InitCommon
    /\ pc = "start"
    /\ catalog \in SmallCatalogs
    /\ page_size = PageSize

\* ------------------------------------------------------------------ actions

\* main() up to the first await of get_urls: the session is opened, get_tasks
\* calls get_cmr_pages_urls (a blocking request) and iterates over its result.
GetUrlsStart ==
    /\ pc = "start"
    /\ \E status \in CountStatuses :
        LET resp == [status |-> status, hits |-> Len(Catalogs[catalog])]
            pages == get_cmr_pages_urls(status, resp.hits, page_size)
        IN  /\ countResp' = resp
            /\ pageUrls' = pages
            /\ IF pages.isNone
               THEN \* for l in None: TypeError leaves main through the async with
                    /\ sent' = sent \cup {Request("count", 0)}
                    /\ session' = [session EXCEPT !.anon = "closed"]
                    /\ pc' = "done"
                    /\ outcome' = "TypeError"
               ELSE \* one session.get per page url, awaited together by gather
                    /\ sent' = sent \cup {Request("count", 0)}
                                    \cup {Request("page", x) : x \in DOMAIN pages.urls}
                    /\ session' = [session EXCEPT !.anon = "open"]
                    /\ pc' = "gather"
                    /\ outcome' = outcome
    /\ UNCHANGED <<catalog, netrcState, page_size, arrived, results, tasks, files>>

\* The response to one page request arrives.
PageResponse(p) ==
    /\ pc = "gather"
    /\ p \in DOMAIN pageUrls.urls
    /\ \A i \in DOMAIN arrived : arrived[i] # p
    /\ arrived' = Append(arrived, p)
    /\ UNCHANGED <<pc, outcome, catalog, netrcState, page_size, countResp,
                   pageUrls, results, session, sent, tasks, files>>

\* gather returns; get_urls builds its result; main leaves the first session.
GetUrlsReturn ==
    /\ pc = "gather"
    /\ Len(arrived) = Len(pageUrls.urls)
    /\ results' = Extend(catalog, pageUrls.urls,
                         GatherOrder(Len(pageUrls.urls), arrived))
    /\ session' = [session EXCEPT !.anon = "closed"]
    /\ pc' = "auth"
    /\ UNCHANGED <<outcome, catalog, netrcState, page_size, countResp,
                   pageUrls, arrived, sent, tasks, files>>

NewTask(url) ==
    [url |-> url, st |-> "created", status |-> 0, len |-> 0, pos |-> 0,
     prior |-> {}]

\* The netrc check, then the second session and one task per url of results[:5].
Authenticate ==
    /\ pc = "auth"
    /\ IF NetrcCheckFails(netrcState)
       THEN /\ pc' = "done"
            /\ outcome' = "NotAuthenticated"
            /\ UNCHANGED <<session, tasks>>
       ELSE /\ pc' = "download"
            /\ session' = [session EXCEPT !.auth = "open"]
            /\ tasks' = [t \in 1..Min(DownloadLimit, Len(results)) |->
                            NewTask(results[t])]
            /\ UNCHANGED outcome
    /\ UNCHANGED <<catalog, netrcState, page_size, countResp, pageUrls,
                   arrived, results, sent, files>>

\* download_file: session.get(url) issues the request.
SendRequest(t) ==
    /\ pc = "download"
    /\ t \in DOMAIN tasks
    /\ tasks[t].st = "created"
    /\ tasks' = [tasks EXCEPT
          ![t].st = "requesting",
          ![t].prior = {k \in DOMAIN tasks :
                          /\ k # t
                          /\ LastSegment(tasks[k].url) = FileName(t)
                          /\ tasks[k].st \notin Running}]
    /\ sent' = sent \cup {Request("download", t)}
    /\ UNCHANGED <<pc, outcome, catalog, netrcState, page_size, countResp,
                   pageUrls, arrived, results, session, files>>

FailAndCancel(ts, t, status) ==
    [k \in DOMAIN ts |->
        IF k = t THEN [ts[k] EXCEPT !.st = "failed", !.status = status]
        ELSE IF ts[k].st \in Running THEN [ts[k] EXCEPT !.st = "cancelled"]
        ELSE ts[k]]
\* if resp.status != 200: print(...); return
Fail(ts, t, status) ==
    [ts EXCEPT ![t].st = "failed", ![t].status = status]

\* The response to a download request arrives: a failure ends the task, a
\* success opens the destination file.
ReceiveResponse(t) ==
    /\ pc = "download"
    /\ t \in DOMAIN tasks
    /\ tasks[t].st = "requesting"
    /\ \/ \E status \in {404, 500} :
            /\ tasks' = Fail(tasks, t, status)
            /\ UNCHANGED files
       \/ \E len \in 1..MaxChunks :
            /\ tasks' = [tasks EXCEPT ![t].st = "writing",
                                      ![t].status = StatusOK,
                                      ![t].len = len]
            /\ files' = OpenTruncate(files, FileName(t))
    /\ UNCHANGED <<pc, outcome, catalog, netrcState, page_size, countResp,
                   pageUrls, arrived, results, session, sent>>

\* One turn of the loop: a chunk is read and written.
WriteChunk(t) ==
    /\ pc = "download"
    /\ t \in DOMAIN tasks
    /\ tasks[t].st = "writing"
    /\ tasks[t].pos < tasks[t].len
    /\ files' = [files EXCEPT ![FileName(t)] =
                    WriteAt(@, tasks[t].pos, Chunk(t, tasks[t].pos + 1))]
    /\ tasks' = [tasks EXCEPT ![t].pos = @ + 1]
    /\ UNCHANGED <<pc, outcome, catalog, netrcState, page_size, countResp,
                   pageUrls, arrived, results, session, sent>>

\* The read returns no more bytes: the loop breaks, file and response close.
Finish(t) ==
    /\ pc = "download"
    /\ t \in DOMAIN tasks
    /\ tasks[t].st = "writing"
    /\ tasks[t].pos = tasks[t].len
    /\ tasks' = [tasks EXCEPT ![t].st = "done"]
    /\ UNCHANGED <<pc, outcome, catalog, netrcState, page_size, countResp,
                   pageUrls, arrived, results, session, sent, files>>

\* gather returns once every task has ended; main leaves the second session.
BatchDone ==
    /\ pc = "download"
    /\ \A t \in DOMAIN tasks : tasks[t].st \notin Running
    /\ pc' = "done"
    /\ outcome' = "ok"
    /\ session' = [session EXCEPT !.auth = "closed"]
    /\ UNCHANGED <<catalog, netrcState, page_size, countResp, pageUrls,
                   arrived, results, sent, tasks, files>>

Next ==
    \/ GetUrlsStart
    \/ \E p \in DOMAIN pageUrls.urls : PageResponse(p)
    \/ GetUrlsReturn
    \/ Authenticate
    \/ \E t \in DOMAIN tasks : SendRequest(t)
    \/ \E t \in DOMAIN tasks : ReceiveResponse(t)
    \/ \E t \in DOMAIN tasks : WriteChunk(t)
    \/ \E t \in DOMAIN tasks : Finish(t)
    \/ BatchDone

Spec == Init /\ [][Next]_vars

\* The whole pipeline on the catalog whose result list exceeds results[:5].
InitFanout ==
    /\ InitCommon
    /\ pc = "start"
    /\ catalog \in FanoutCatalogs
    /\ page_size = PageSize

SpecFanout == InitFanout /\ [][Next]_vars

\* get_cmr_pages_urls on its own, over every count response and page size.
InitPages ==
    /\ InitCommon
    /\ pc = "call"
    /\ catalog = 3
    /\ page_size \in 1..MaxPageSize

CallGetCmrPagesUrls ==
    /\ pc = "call"
    /\ \E status \in CountStatuses, hits \in 0..MaxHits :
        /\ countResp' = [status |-> status, hits |-> hits]
        /\ pageUrls' = get_cmr_pages_urls(status, hits, page_size)
        /\ sent' = sent \cup {Request("count", 0)}
    /\ pc' = "returned"
    /\ UNCHANGED <<outcome, catalog, netrcState, page_size, arrived, results,
                   session, tasks, files>>

NextPages == CallGetCmrPagesUrls

SpecPages == InitPages /\ [][NextPages]_vars

\* ------------------------------------------------------------------- claims

Kinds(ks) == {r \in sent : r.kind \in ks}

\* C1: on a 200 count response with CMR-Hits = hits > 0, get_cmr_pages_urls
\* returns exactly ceil(hits / page_size) urls, the n-th with page_num = n.
PagesCoverHits ==
    (pc = "returned" /\ countResp.status = StatusOK /\ countResp.hits > 0) =>
        LET n == Len(pageUrls.urls)
        IN  /\ ~pageUrls.isNone
            /\ n * page_size >= countResp.hits
            /\ (n - 1) * page_size < countResp.hits
            /\ \A i \in 1..n : pageUrls.urls[i].page_num = i

PagesCoverHitsWitness ==
    /\ pc = "returned"
    /\ countResp = [status |-> StatusOK, hits |-> 7]
    /\ page_size = 3
    /\ Len(pageUrls.urls) = 3

\* C2: every link get_urls returns has the https scheme and ends with .h5.
LinksSecureAndSuffixed ==
    \A i \in DOMAIN results :
        /\ Len(results[i]) >= Len(HTTPS \o SchemeSep)
        /\ SubSeq(results[i], 1, Len(HTTPS \o SchemeSep)) = HTTPS \o SchemeSep
        /\ EndsWith(results[i], DotH5)

\* C3: a download that fails cancels no sibling: when the batch has ended,
\* every task has had its response, every 200 response was written out whole
\* (and is the content of its file when no other task shares the name), and
\* only the tasks answered with another status have failed.
SiblingsComplete ==
    /\ \A t \in DOMAIN tasks : tasks[t].st # "cancelled"
    /\ (pc = "done" /\ outcome = "ok") =>
        \A t \in DOMAIN tasks :
            /\ tasks[t].status # 0
            /\ tasks[t].status # StatusOK => tasks[t].st = "failed"
            /\ tasks[t].status = StatusOK =>
                /\ tasks[t].st = "done"
                /\ tasks[t].len >= 1
                /\ tasks[t].pos = tasks[t].len
                /\ (\A k \in DOMAIN tasks \ {t} : FileName(k) # FileName(t)) =>
                       files[FileName(t)] = Body(t, tasks[t].len)

SiblingsCompleteWitness ==
    /\ pc = "done"
    /\ outcome = "ok"
    /\ Len(tasks) = 4
    /\ tasks[2].st = "failed"
    /\ tasks[2].status = 404
    /\ tasks[4].st = "done"
    /\ tasks[4].prior = {}
    /\ files[FileName(4)] = Body(4, 2)
    /\ tasks[1].st = "done"

\* C4: with the netrc file absent or without an entry for URS, no download
\* request is ever sent, no file is written, and a run that gets as far as the
\* check ends as not authenticated.
NoDownloadUnauthenticated ==
    netrcState \in {"absent", "no_entry"} =>
        /\ Kinds({"download"}) = {}
        /\ tasks = <<>>
        /\ files = <<>>
        /\ session.auth = "unopened"
        /\ pc = "done" => outcome \in {"NotAuthenticated", "TypeError"}
        /\ (pc = "done" /\ countResp.status = StatusOK) =>
               outcome = "NotAuthenticated"

NoDownloadUnauthenticatedWitness ==
    /\ pc = "done"
    /\ netrcState = "no_entry"
    /\ outcome = "NotAuthenticated"
    /\ Len(results) = 4
    /\ Kinds({"download"}) = {}

\* C5: never more than max_concurrent = 2 downloads in flight.
ConcurrencyCap == Cardinality(InFlight) <= 2

\* C6: on a count response other than 200, get_cmr_pages_urls returns no page
\* list and the run ends there: no page request, no download request.
DiscoveryFailureAborts ==
    countResp.status \notin {0, StatusOK} =>
        /\ pageUrls.isNone
        /\ Kinds({"page", "download"}) = {}
        /\ arrived = <<>>
        /\ results = <<>>
        /\ tasks = <<>>
        /\ files = <<>>
        /\ session.auth = "unopened"
        /\ pc = "done"
        /\ outcome = "TypeError"

DiscoveryFailureAbortsWitness ==
    /\ pc = "done"
    /\ countResp.status = 500
    /\ Len(Catalogs[catalog]) = 12
    /\ outcome = "TypeError"
    /\ Kinds({"count"}) # {}

\* C7: a url downloaded again after its first download has ended, both with
\* status 200, leaves the file holding exactly the second body.
RedownloadOverwrites ==
    \A i, j \in DOMAIN tasks :
        ( /\ i # j
          /\ tasks[i].url = tasks[j].url
          /\ tasks[i].status = StatusOK
          /\ tasks[j].st = "done"
          /\ i \in tasks[j].prior
          /\ \A k \in DOMAIN tasks \ {j} :
                FileName(k) = FileName(j) => k \in tasks[j].prior )
        => files[FileName(j)] = Body(j, tasks[j].len)

RedownloadOverwritesWitness ==
    /\ Len(tasks) = 4
    /\ tasks[1].url = tasks[3].url
    /\ tasks[1].st = "done"
    /\ tasks[1].len = 2
    /\ tasks[3].st = "done"
    /\ tasks[3].len = 1
    /\ tasks[3].prior = {1}
    /\ files[FileName(3)] = Body(3, 1)

\* The retained links by place: page, entry within the page, link within the
\* entry.
KeptPlaces ==
    UNION {
        LET body == PageBody(catalog, page_size, p)
        IN  UNION {
                {<<p, e, l>> : l \in {l \in DOMAIN body[e].links :
                                        LinkFilter(body[e].links[l])}} :
                e \in DOMAIN body} :
        p \in DOMAIN pageUrls.urls}

HrefAt(x) == PageBody(catalog, page_size, x[1])[x[2]].links[x[3]]

Before(x, y) ==
    \/ x[1] < y[1]
    \/ x[1] = y[1] /\ x[2] < y[2]
    \/ x[1] = y[1] /\ x[2] = y[2] /\ x[3] < y[3]

\* C8: get_urls returns the retained links in page order, then entry order,
\* then link order, duplicates kept, whatever order the pages arrived in.
ResultsInPageOrder ==
    (pc \in {"auth", "download", "done"} /\ ~pageUrls.isNone) =>
        /\ Len(results) = Cardinality(KeptPlaces)
        /\ \A x \in KeptPlaces :
              results[1 + Cardinality({y \in KeptPlaces : Before(y, x)})] = HrefAt(x)

ResultsInPageOrderWitness ==
    /\ pc = "auth"
    /\ arrived = <<2, 1>>
    /\ results = <<UrlA, UrlC, UrlA, UrlB>>

\* C9: two urls with the same final path segment, both 200: once the batch has
\* ended the file holds the complete body of one of the two responses.
LastWriterWinsWhole ==
    (pc = "done" /\ outcome = "ok") =>
        \A i, j \in DOMAIN tasks :
            ( /\ i # j
              /\ tasks[i].url # tasks[j].url
              /\ FileName(i) = FileName(j)
              /\ tasks[i].status = StatusOK
              /\ tasks[j].status = StatusOK
              /\ \A k \in DOMAIN tasks \ {i, j} : FileName(k) # FileName(i) )
            => files[FileName(i)] \in {Body(i, tasks[i].len), Body(j, tasks[j].len)}

\* C10: the count and page requests carry no credentials, every download
\* request goes out on the credentialed session, and the first session is
\* closed before the second one is opened.
SessionsSeparate ==
    /\ \A r \in Kinds({"count", "page"}) : ~r.creds /\ r.via # "auth"
    /\ \A r \in Kinds({"download"}) : r.creds /\ r.via = "auth"
    /\ session.auth # "unopened" => session.anon = "closed"
    /\ Kinds({"download"}) # {} => session.auth # "unopened"

SessionsSeparateWitness ==
    /\ pc = "download"
    /\ Kinds({"count"}) # {}
    /\ Cardinality(Kinds({"page"})) = 2
    /\ Cardinality(Kinds({"download"})) = 4
    /\ session = [anon |-> "closed", auth |-> "open"]

====
